---- MODULE Spec2Model ----
(***************************************************************************)
(* State-machine model of AIAgentOrchestrator                              *)
(* (migrated_functionality/src/04-ai_agent_orchestrator.py): the agent     *)
(* registry, the execution queue, task creation, assignment and execution. *)
(***************************************************************************)
EXTENDS Integers, Sequences, FiniteSets, TLC

(* ------------------------------ bounds --------------------------------- *)
\* Longest execution queue explored.
MaxTasks == 2
\* Last instant of the wall clock explored, in clock ticks.
MaxClock == 1
\* Clock ticks per second.  Calls made within one tick, or within ticks of
\* the same second, read the same second from strftime('%Y%m%d_%H%M%S').
TicksPerSecond == 1

(* ------------------------------ values --------------------------------- *)
\* Python's None, for the string-valued fields assigned_agent / current_task.
None == "None"

\* Agent names used by main().
AgentNames == {"StrategyAgent", "TechnicalAgent"}

\* Arguments of register_agent as main() passes them, per agent name.
Capabilities(agent_name) ==
    IF agent_name = "StrategyAgent"
    THEN <<"Business Analysis", "Strategic Planning", "Market Research">>
    ELSE <<"Technical Implementation", "API Development", "System Architecture">>

RealityLayersOf(agent_name) ==
    IF agent_name = "StrategyAgent" THEN <<"MENTAL", "ASTRAL">>
    ELSE <<"PHYSICAL", "MENTAL">>

PowerMachinesOf(agent_name) ==
    IF agent_name = "StrategyAgent" THEN <<"MONEY", "DATA", "NARRATIVE">>
    ELSE <<"TECHNOLOGY", "DATA", "NETWORK">>

\* class RealityLayer(Enum): the ordinal of each member.
RealityLayer ==
    [PHYSICAL |-> 1, EMOTIONAL |-> 2, MENTAL |-> 3, ASTRAL |-> 4,
     ETHERIC |-> 5, CELESTIAL |-> 6, DIVINE |-> 7]

(* --------------------------- text helpers ------------------------------ *)
\* Free-text fields that the estimators inspect character by character are
\* sequences of one-character strings.
UpperCase == <<"A","B","C","D","E","F","G","H","I","J","K","L","M",
               "N","O","P","Q","R","S","T","U","V","W","X","Y","Z">>
LowerCase == <<"a","b","c","d","e","f","g","h","i","j","k","l","m",
               "n","o","p","q","r","s","t","u","v","w","x","y","z">>

\* str.lower() on one character.
LowerChar(c) ==
    IF \E i \in 1..Len(UpperCase) : UpperCase[i] = c
    THEN LowerCase[CHOOSE i \in 1..Len(UpperCase) : UpperCase[i] = c]
    ELSE c

\* str.lower()
RECURSIVE Lower(_)
Lower(s) ==
    IF s = <<>> THEN <<>> ELSE <<LowerChar(Head(s))>> \o Lower(Tail(s))

\* Python's `sub in s` on strings.
Contains(s, sub) ==
    \E i \in 0..(Len(s) - Len(sub)) :
        \A j \in 1..Len(sub) : s[i + j] = sub[j]

(* ---------------------------- the inputs ------------------------------- *)
\* Keywords the estimators look for (lines 447-451, 460-462, 471-473).
KwCreditRepair == <<"c","r","e","d","i","t"," ","r","e","p","a","i","r">>
KwRealEstate == <<"r","e","a","l"," ","e","s","t","a","t","e">>
KwAiAutomation == <<"a","i"," ","a","u","t","o","m","a","t","i","o","n">>
Kw30Day == <<"3","0","-","d","a","y">>
Kw90Day == <<"9","0","-","d","a","y">>
KwHigh == <<"h","i","g","h">>
KwMedium == <<"m","e","d","i","u","m">>

\* The AgentExecutionContext main() builds (lines 547-554).
MainContext ==
    [target_volume |-> "Volume_2",
     target_section |-> "4.3",
     current_business_focus |-> <<"C","r","e","d","i","t"," ","R","e","p","a","i","r"," ","S","e","r","v","i","c","e">>,
     current_reality_layer |-> "MENTAL",
     temporal_constraints |-> <<"3","0","-","d","a","y"," ","i","m","p","l","e","m","e","n","t","a","t","i","o","n">>,
     energy_resources |-> <<"H","i","g","h"," ","t","e","c","h","n","i","c","a","l"," ","r","e","s","o","u","r","c","e","s"," ","a","v","a","i","l","a","b","l","e">>,
     priority |-> "Medium"]

\* A second context: a catalogued section of Volume_1, other keywords.
OtherContext ==
    [target_volume |-> "Volume_1",
     target_section |-> "1.0",
     current_business_focus |-> <<"A","I"," ","A","u","t","o","m","a","t","i","o","n">>,
     current_reality_layer |-> "CELESTIAL",
     temporal_constraints |-> <<"9","0","-","d","a","y"," ","r","o","l","l","o","u","t">>,
     energy_resources |-> <<"M","e","d","i","u","m"," ","b","u","d","g","e","t">>,
     priority |-> "High"]

\* The context objects callers hold.  A task stores a reference to the
\* object it was given (line 113), here the object's name.
ContextObjects == [main |-> MainContext, other |-> OtherContext]

\* Contexts handed to create_execution_task.
Contexts == DOMAIN ContextObjects

\* Free-text values for the estimators' inputs: each keyword of lines
\* 447-451, 460-462 and 471-473 in some spelling, and texts holding none.
FocusTexts ==
    [credit |-> <<"C","r","e","d","i","t"," ","R","e","p","a","i","r"," ","S","e","r","v","i","c","e">>,
     estate |-> <<"L","u","x","u","r","y"," ","R","e","a","l"," ","E","s","t","a","t","e">>,
     automation |-> <<"A","I"," ","A","u","t","o","m","a","t","i","o","n">>,
     payments |-> <<"P","a","y","m","e","n","t","s"," ","A","P","I">>,
     empty |-> <<>>]

TimingTexts ==
    [d30 |-> <<"3","0","-","d","a","y"," ","i","m","p","l","e","m","e","n","t","a","t","i","o","n">>,
     d90 |-> <<"9","0","-","D","a","y"," ","R","o","l","l","o","u","t">>,
     later |-> <<"n","e","x","t"," ","f","i","s","c","a","l"," ","y","e","a","r">>]

EnergyTexts ==
    [high |-> <<"H","i","g","h"," ","t","e","c","h","n","i","c","a","l"," ","r","e","s","o","u","r","c","e","s"," ","a","v","a","i","l","a","b","l","e">>,
     medium |-> <<"M","E","D","I","U","M"," ","b","u","d","g","e","t">>,
     scarce |-> <<"s","c","a","r","c","e">>]

\* One context per layer, focus, timing and resource text: the inputs of
\* the four estimators in every combination.
ContextChoices ==
    (DOMAIN RealityLayer) \X (DOMAIN FocusTexts) \X (DOMAIN TimingTexts)
        \X (DOMAIN EnergyTexts)

\* The name of the context object built from a choice.
ContextName(w) == w[1] \o "/" \o w[2] \o "/" \o w[3] \o "/" \o w[4]

ChosenContext(w) ==
    [target_volume |-> "infra",
     target_section |-> "deploy",
     current_business_focus |-> FocusTexts[w[2]],
     current_reality_layer |-> w[1],
     temporal_constraints |-> TimingTexts[w[3]],
     energy_resources |-> EnergyTexts[w[4]],
     priority |-> "Medium"]

EstimatorContextObjects ==
    [k \in {ContextName(w) : w \in ContextChoices} |->
        ChosenContext(CHOOSE w \in ContextChoices : ContextName(w) = k)]

\* Contexts handed to create_execution_task when the estimators are examined.
EstimatorContexts == DOMAIN EstimatorContextObjects

\* Every context object a task may reference.
AllContextObjects == ContextObjects @@ EstimatorContextObjects

\* The AgentExecutionOutput main() builds (lines 557-571).
MainExpectedOutputs ==
    [technical_specifications |-> "Complete API specification with monitoring endpoints",
     implementation_steps |-> <<"Design API endpoints", "Implement authentication",
                                "Create monitoring", "Deploy and test">>,
     success_metrics |-> [api_performance |-> "<200ms", uptime |-> ">99.9%",
                          security_score |-> ">95%"],
     cross_dimensional_impact |-> "High - Significant cross-dimensional optimization achieved",
     completion_status |-> "Pending"]

\* The expected-outputs objects callers hold, referenced like the contexts.
ExpectedOutputObjects == [main |-> MainExpectedOutputs]

(* --------------------------- the estimators ---------------------------- *)
\* Line 436 changed: the High threshold is not strict.
calculate_cross_dimensional_impact_Inclusive(context) ==
    LET reality_layer == RealityLayer[context.current_reality_layer]
        business_focus == context.current_business_focus
        impact_score == (reality_layer * 10) + Len(business_focus)
    IN  IF impact_score >= 50
        THEN "High - Significant cross-dimensional optimization achieved"
        ELSE IF impact_score > 30
        THEN "Medium - Moderate cross-dimensional impact"
        ELSE "Low - Limited cross-dimensional impact"

calculate_cross_dimensional_impact(context) ==
    LET reality_layer == RealityLayer[context.current_reality_layer]
        business_focus == context.current_business_focus
        impact_score == (reality_layer * 10) + Len(business_focus)
    IN  IF impact_score > 50
        THEN "High - Significant cross-dimensional optimization achieved"
        ELSE IF impact_score > 30
        THEN "Medium - Moderate cross-dimensional impact"
        ELSE "Low - Limited cross-dimensional impact"

calculate_business_value(context) ==
    LET business_focus == Lower(context.current_business_focus)
    IN  IF Contains(business_focus, KwCreditRepair)
        THEN "$50K-100K monthly revenue potential"
        ELSE IF Contains(business_focus, KwRealEstate)
        THEN "$100K-500K monthly revenue potential"
        ELSE IF Contains(business_focus, KwAiAutomation)
        THEN "$25K-75K monthly revenue potential"
        ELSE "$10K-50K monthly revenue potential"

calculate_temporal_optimization(context) ==
    LET temporal_constraints == Lower(context.temporal_constraints)
    IN  IF Contains(temporal_constraints, Kw30Day)
        THEN "High - Rapid implementation timeline"
        ELSE IF Contains(temporal_constraints, Kw90Day)
        THEN "Medium - Standard implementation timeline"
        ELSE "Low - Extended implementation timeline"

\* Lines 475-476 changed: no tier for unrecognised resources.
calculate_energy_efficiency_NoDefault(context) ==
    LET energy_resources == Lower(context.energy_resources)
    IN  IF Contains(energy_resources, KwHigh)
        THEN "High - Maximum energy utilization"
        ELSE IF Contains(energy_resources, KwMedium)
        THEN "Medium - Moderate energy utilization"
        ELSE "Unknown"

calculate_energy_efficiency(context) ==
    LET energy_resources == Lower(context.energy_resources)
    IN  IF Contains(energy_resources, KwHigh)
        THEN "High - Maximum energy utilization"
        ELSE IF Contains(energy_resources, KwMedium)
        THEN "Medium - Moderate energy utilization"
        ELSE "Low - Minimal energy utilization"

(* ------------------------------ the plan ------------------------------- *)
\* The class body defines _generate_execution_plan twice (lines 173 and
\* 359); the later definition replaces the earlier one, so the call in
\* execute_task (line 157) runs the one at line 359 with
\* section = context and context = expected_outputs, and ignores both.
generate_execution_plan(section, context) ==
    [focus |-> "Execution Optimization",
     implementation |-> <<"Implement daily protocols",
                          "Launch quick-win businesses",
                          "Set up core infrastructure",
                          "Develop neural pathways">>,
     memu_integration |-> "All enterprise systems",
     success_metrics |-> [execution_speed |-> ">90%",
                          success_rate |-> ">85%",
                          infrastructure_coverage |-> "100%"]]

(* --------------------------- the plan catalog -------------------------- *)
\* _generate_generic_plan (lines 395-411).
generate_generic_plan(section, context) ==
    [focus |-> "Generic Implementation for " \o section,
     implementation |-> <<"Analyze requirements",
                          "Design implementation",
                          "Execute implementation",
                          "Validate results">>,
     memu_integration |-> "All systems",
     success_metrics |-> [completion_rate |-> "100%",
                          quality_score |-> ">90%",
                          integration_score |-> ">85%"]]

\* The table `plans` of _generate_foundational_plan (lines 200-246).
FoundationalPlans ==
       "1.0" :> [focus |-> "7-Layer Reality Architecture",
               implementation |-> <<"Map business to reality layers",
                                  "Implement layer-specific systems",
                                  "Create cross-layer integration",
                                  "Validate layer functionality">>,
               memu_integration |-> "Enterprise core platforms",
               success_metrics |-> [layer_coverage |-> "100%",
                                   integration_score |-> ">90%",
                                   functionality_preservation |-> "100%"]]
    @@ "2.0" :> [focus |-> "14 Machines of Power",
               implementation |-> <<"Identify primary machines for business",
                                  "Implement machine-specific systems",
                                  "Create machine coordination",
                                  "Optimize machine performance">>,
               memu_integration |-> "All enterprise systems",
               success_metrics |-> [machine_coverage |-> "100%",
                                   coordination_score |-> ">90%",
                                   performance_improvement |-> ">50%"]]
    @@ "3.0" :> [focus |-> "82-Business Neural Mapping",
               implementation |-> <<"Map business to neural pathways",
                                  "Implement neural-specific systems",
                                  "Create pathway optimization",
                                  "Validate neural functionality">>,
               memu_integration |-> "Business intelligence systems",
               success_metrics |-> [neural_coverage |-> "100%",
                                   pathway_optimization |-> ">90%",
                                   business_alignment |-> ">95%"]]

\* The table `plans` of _generate_technical_plan (lines 252-301).
TechnicalPlans ==
       "4.0" :> [focus |-> "AI Agent Orchestration System",
               implementation |-> <<"Implement multi-agent architecture",
                                  "Set up MCP integration",
                                  "Create URL-based API architecture",
                                  "Build iOS app ecosystem",
                                  "Implement real-time monitoring">>,
               memu_integration |-> "AI agent ecosystem, MCP hub, API management",
               success_metrics |-> [agent_coordination |-> ">95%",
                                   api_performance |-> "<200ms",
                                   monitoring_coverage |-> "100%"]]
    @@ "5.0" :> [focus |-> "Data & Knowledge Architecture",
               implementation |-> <<"Set up unified data lakehouse",
                                  "Implement knowledge graph engine",
                                  "Create vector database integration",
                                  "Build ETL/ELT pipelines",
                                  "Implement real-time streaming">>,
               memu_integration |-> "Database systems, intelligence systems",
               success_metrics |-> [data_coverage |-> "100%",
                                   query_performance |-> "<100ms",
                                   real_time_latency |-> "<50ms"]]
    @@ "6.0" :> [focus |-> "Deployment & Infrastructure",
               implementation |-> <<"Set up Kubernetes orchestration",
                                  "Implement Terraform IaC",
                                  "Create CI/CD pipelines",
                                  "Build multi-cloud strategy",
                                  "Implement security framework">>,
               memu_integration |-> "DevOps systems, security systems",
               success_metrics |-> [deployment_speed |-> "<5min",
                                   uptime |-> ">99.9%",
                                   security_score |-> ">95%"]]

\* _generate_temporal_plan (lines 305-321).
generate_temporal_plan(section, context) ==
    [focus |-> "Temporal Optimization",
     implementation |-> <<"Analyze temporal constraints",
                        "Optimize timing for business",
                        "Implement temporal algorithms",
                        "Create temporal monitoring">>,
     memu_integration |-> "Scheduling systems, temporal systems",
     success_metrics |-> [timing_accuracy |-> ">95%",
                         temporal_efficiency |-> ">90%",
                         success_probability |-> ">85%"]]

\* _generate_energetic_plan (lines 323-339).
generate_energetic_plan(section, context) ==
    [focus |-> "Energy Flow Optimization",
     implementation |-> <<"Map energy flows",
                        "Optimize energy circulation",
                        "Implement energy monitoring",
                        "Create energy management">>,
     memu_integration |-> "Energy systems, flow systems",
     success_metrics |-> [energy_efficiency |-> ">90%",
                         flow_optimization |-> ">95%",
                         energy_utilization |-> ">85%"]]

\* _generate_consciousness_plan (lines 341-357).
generate_consciousness_plan(section, context) ==
    [focus |-> "Consciousness Development",
     implementation |-> <<"Implement AI consciousness protocols",
                        "Create multi-agent collective intelligence",
                        "Build ethical governance frameworks",
                        "Develop transcendent AI architectures">>,
     memu_integration |-> "AI consciousness, transcendent systems",
     success_metrics |-> [consciousness_level |-> ">90%",
                         ethical_compliance |-> "100%",
                         transcendent_capability |-> ">85%"]]

\* _generate_monitoring_plan (lines 377-393).
generate_monitoring_plan(section, context) ==
    [focus |-> "Monitoring & Optimization",
     implementation |-> <<"Implement multi-dimensional metrics",
                        "Create adaptive learning systems",
                        "Build performance tracking",
                        "Develop optimization algorithms">>,
     memu_integration |-> "Monitoring systems, optimization systems",
     success_metrics |-> [monitoring_coverage |-> "100%",
                         optimization_efficiency |-> ">90%",
                         learning_rate |-> ">85%"]]

\* _generate_foundational_plan (lines 198-248): plans.get(section, generic).
generate_foundational_plan(section, context) ==
    IF section \in DOMAIN FoundationalPlans
    THEN FoundationalPlans[section]
    ELSE generate_generic_plan(section, context)

\* _generate_technical_plan (lines 250-303): plans.get(section, generic).
generate_technical_plan(section, context) ==
    IF section \in DOMAIN TechnicalPlans
    THEN TechnicalPlans[section]
    ELSE generate_generic_plan(section, context)

\* The first definition of _generate_execution_plan (lines 173-196), the
\* dispatcher on the volume.  The definition at line 359 replaces it in the
\* class, so no call reaches it; it is what lines 156-157 of execute_task
\* were written against.
generate_execution_plan_by_volume(context, expected_outputs) ==
    LET volume == context.target_volume
        section == context.target_section
    IN  IF volume = "Volume_1" THEN generate_foundational_plan(section, context)
        ELSE IF volume = "Volume_2" THEN generate_technical_plan(section, context)
        ELSE IF volume = "Volume_3" THEN generate_temporal_plan(section, context)
        ELSE IF volume = "Volume_4" THEN generate_energetic_plan(section, context)
        ELSE IF volume = "Volume_5" THEN generate_consciousness_plan(section, context)
        ELSE IF volume = "Volume_6" THEN generate_execution_plan(section, context)
        ELSE IF volume = "Volume_7" THEN generate_monitoring_plan(section, context)
        ELSE generate_generic_plan(section, context)

execute_plan(plan, context) ==
    [plan_focus |-> plan.focus,
     implementation_steps |-> plan.implementation,
     memu_integration |-> plan.memu_integration,
     success_metrics |-> plan.success_metrics,
     execution_status |-> "Completed",
     cross_dimensional_impact |-> calculate_cross_dimensional_impact(context),
     business_value |-> calculate_business_value(context),
     temporal_optimization |-> calculate_temporal_optimization(context),
     energy_efficiency |-> calculate_energy_efficiency(context)]

\* Lines 153-160 of execute_task for a task holding context object c and
\* expected-outputs object e.  Both objects are immutable, so the value is
\* tabulated once per pair of objects.
PlannedResults ==
    [c \in DOMAIN AllContextObjects, e \in DOMAIN ExpectedOutputObjects |->
        LET context == AllContextObjects[c]
            expected_outputs == ExpectedOutputObjects[e]
            execution_plan == generate_execution_plan(context, expected_outputs)
        IN  execute_plan(execution_plan, context)]

(* ------------------------------ the state ------------------------------ *)
VARIABLES
    agents,           \* self.agents: agent name -> agent record
    execution_queue,  \* self.execution_queue: the list of task records
    clock,            \* the wall clock read by datetime.now(), in ticks
    ret,              \* what the last call on the orchestrator returned
    trip,             \* progress of a register / create / assign / execute round trip
    memu_integration, \* self.memu_integration: system name -> amount string
    calls             \* assign_agent_to_task calls in progress, per calling thread

vars == <<agents, execution_queue, clock, ret, trip, memu_integration, calls>>

\* strftime('%Y%m%d_%H%M%S') truncates the instant to whole seconds;
\* task_id = f"task_{...}" (line 109).
TaskIdAt(instant) == "task_" \o ToString(instant \div TicksPerSecond)

\* Identifiers a caller may pass to assign_agent_to_task / execute_task.
TaskIds == {TaskIdAt(i) : i \in 0..MaxClock} \cup {"missing-task"}

\* The comparison of line 129 left out: the first task is taken whatever
\* its id.
FindTask_Any(task_id) == IF Len(execution_queue) > 0 THEN 1 ELSE 0

\* Lines 129 and 145 changed: the queue is searched from its end.
FindTask_Last(task_id) ==
    IF \E i \in 1..Len(execution_queue) : execution_queue[i].id = task_id
    THEN CHOOSE i \in 1..Len(execution_queue) :
            /\ execution_queue[i].id = task_id
            /\ \A j \in 1..Len(execution_queue) :
                  execution_queue[j].id = task_id => j <= i
    ELSE 0

\* next((t for t in self.execution_queue if t["id"] == task_id), None):
\* the position of the first task with that id, 0 for None.
FindTask(task_id) ==
    IF \E i \in 1..Len(execution_queue) : execution_queue[i].id = task_id
    THEN CHOOSE i \in 1..Len(execution_queue) :
            /\ execution_queue[i].id = task_id
            /\ \A j \in 1..(i - 1) : execution_queue[j].id # task_id
    ELSE 0

\* Line 98 changed: an agent already registered keeps its entry.
NewAgent_KeepExisting(agent_name) ==
    IF agent_name \in DOMAIN agents
    THEN agents[agent_name]
    ELSE [capabilities |-> Capabilities(agent_name),
          reality_layers |-> RealityLayersOf(agent_name),
          power_machines |-> PowerMachinesOf(agent_name),
          status |-> "Available",
          current_task |-> None]

\* The agent record register_agent stores (lines 98-104).
NewAgent(agent_name) ==
    [capabilities |-> Capabilities(agent_name),
     reality_layers |-> RealityLayersOf(agent_name),
     power_machines |-> PowerMachinesOf(agent_name),
     status |-> "Available",
     current_task |-> None]

\* Line 115 changed: the new task starts In Progress.
NewTask_InProgress(task_id, context, expected_outputs, created_at) ==
    [id |-> task_id,
     context |-> context,
     expected_outputs |-> expected_outputs,
     status |-> "In Progress",
     created_at |-> created_at,
     assigned_agent |-> None,
     progress |-> 0]

\* The task record create_execution_task builds (lines 111-119); the keys
\* "results" and "completed_at" do not exist yet.
NewTask(task_id, context, expected_outputs, created_at) ==
    [id |-> task_id,
     context |-> context,
     expected_outputs |-> expected_outputs,
     status |-> "Queued",
     created_at |-> created_at,
     assigned_agent |-> None,
     progress |-> 0]

\* Line 133 left out: a busy agent is accepted.
AgentIsAvailable_Always(agent_name) == TRUE

\* Line 133 with a filter on the agent's reality layers added.
AgentIsAvailable_InLayer(agent_name) ==
    /\ agents[agent_name].status = "Available"
    /\ \E k \in DOMAIN agents[agent_name].reality_layers :
          agents[agent_name].reality_layers[k] = "ASTRAL"

\* Line 133: the only check assign_agent_to_task makes on the agent.
AgentIsAvailable(agent_name) == agents[agent_name].status = "Available"

\* Line 136 left out: the task goes In Progress without an agent.
AssignedTask_StatusOnly(task, agent_name) ==
    [task EXCEPT !.status = "In Progress"]

\* Lines 136 and 139 changed: assignment also restamps created_at.
AssignedTask_Restamped(task, agent_name) ==
    [task EXCEPT !.assigned_agent = agent_name, !.status = "In Progress",
                 !.created_at = clock]

\* Lines 136 and 139: the writes to the task on assignment.
AssignedTask(task, agent_name) ==
    [task EXCEPT !.assigned_agent = agent_name, !.status = "In Progress"]

\* Line 138 left out: the agent is marked Busy without its task.
BusyAgent_NoTask(agent, task_id) == [agent EXCEPT !.status = "Busy"]

\* Lines 137-138: the writes to the agent on assignment.
BusyAgent(agent, task_id) ==
    [agent EXCEPT !.status = "Busy", !.current_task = task_id]

\* Line 164 left out: the task is marked Completed without its results.
CompletedTask_NoResults(task, results, now) ==
    [status |-> "Completed", completed_at |-> now] @@ task

\* Line 164 changed: the executing agent's name is written into the results.
CompletedTask_AgentInResults(task, results, now) ==
    [status |-> "Completed",
     results |-> [results EXCEPT !.execution_status = task.assigned_agent],
     completed_at |-> now] @@ task

\* Line 165 changed: completed_at is stamped one tick early.
CompletedTask_StampedEarly(task, results, now) ==
    [status |-> "Completed", results |-> results, completed_at |-> now - 1] @@ task

\* Lines 163-165: the writes to the task on execution; "results" and
\* "completed_at" are added to the record, or overwritten when present.
CompletedTask(task, results, now) ==
    [status |-> "Completed", results |-> results, completed_at |-> now] @@ task

\* Line 169 left out: the agent is set Available but keeps its current_task.
FreedAgent_KeepsTask(agent) == [agent EXCEPT !.status = "Available"]

\* Lines 168-169: the writes to the agent when a task has run.
FreedAgent(agent) ==
    [agent EXCEPT !.status = "Available", !.current_task = None]

NoTrip == [stage |-> 0, agent |-> None, index |-> 0]

\* What a call returned, tagged with the kind of value: "none" (register_agent),
\* "id" (create_execution_task), "bool" (assign_agent_to_task), "error" and
\* "results" (execute_task: {"error": ...} or the results), "status"
\* (get_execution_status), "raised" (an exception).
Returned(kind, value) == [kind |-> kind, value |-> value]

TaskNotFound == Returned("error", "Task not found")
NoAgentAssigned == Returned("error", "No agent assigned")
KeyError == Returned("raised", "KeyError")

\* _load_memu_integration (lines 72-92).
load_memu_integration ==
    [enterprise_platform |-> "$200B",
     billionaire_consciousness |-> "$350B",
     worldwidebro_integration |-> "$80B",
     genix_bank_financial |-> "$40B",
     ai_agent_ecosystem |-> "$20B",
     mcp_integration_hub |-> "$15B",
     autonomous_systems |-> "$50B",
     security_system |-> "$20B",
     devops_system |-> "$15B",
     integration_system |-> "$30B",
     frontend_system |-> "$20B",
     backend_services |-> "$25B",
     api_management |-> "$18B",
     database_systems |-> "$12B",
     business_intelligence |-> "$25B",
     monitoring_system |-> "$8B",
     reporting_system |-> "$7B"]

\* The threads that call the orchestrator, and a thread that is in no call.
Callers == {"caller1", "caller2"}
Idle == [pc |-> "idle", task_id |-> None, agent_name |-> None, index |-> 0,
         result |-> FALSE]

\* __init__ (lines 66-70).
Init ==
    /\ agents = [n \in {} |-> None]
    /\ execution_queue = <<>>
    /\ clock = 0
    /\ ret = Returned("none", None)
    /\ trip = NoTrip
    /\ memu_integration = load_memu_integration
    /\ calls = [c \in Callers |-> Idle]

(* ----------------------------- operations ------------------------------ *)
\* Time passes between two calls.
Tick ==
    /\ clock < MaxClock
    /\ clock' = clock + 1
    /\ UNCHANGED <<agents, execution_queue, ret, trip, memu_integration, calls>>

\* register_agent (lines 94-104): insert or overwrite the entry.
register_agent(agent_name) ==
    /\ agents' = [n \in (DOMAIN agents) \cup {agent_name} |->
                    IF n = agent_name THEN NewAgent(agent_name) ELSE agents[n]]
    /\ ret' = Returned("none", None)
    /\ trip' = [stage |-> 1, agent |-> agent_name, index |-> 0]
    /\ UNCHANGED <<execution_queue, clock, memu_integration, calls>>

\* create_execution_task (lines 106-122).  Both reads of datetime.now()
\* (lines 109 and 116) fall in the same tick: a call takes no model time.
create_execution_task(context, expected_outputs) ==
    /\ Len(execution_queue) < MaxTasks
    /\ LET task_id == TaskIdAt(clock)
           task == NewTask(task_id, context, expected_outputs, clock)
       IN  /\ execution_queue' = Append(execution_queue, task)
           /\ ret' = Returned("id", task_id)
    /\ trip' = IF trip.stage = 1
               THEN [trip EXCEPT !.stage = 2, !.index = Len(execution_queue) + 1]
               ELSE NoTrip
    /\ UNCHANGED <<agents, clock, memu_integration, calls>>

\* assign_agent_to_task (lines 124-141).
assign_agent_to_task(task_id, agent_name) ==
    LET i == FindTask(task_id)
        ok == /\ agent_name \in DOMAIN agents
              /\ i # 0
              /\ AgentIsAvailable(agent_name)
    IN  /\ IF ok
           THEN /\ execution_queue' =
                       [execution_queue EXCEPT ![i] = AssignedTask(@, agent_name)]
                /\ agents' = [agents EXCEPT ![agent_name] = BusyAgent(@, task_id)]
           ELSE UNCHANGED <<execution_queue, agents>>
        /\ ret' = Returned("bool", ok)
        /\ trip' = IF /\ ok
                      /\ trip.stage = 2
                      /\ trip.agent = agent_name
                      /\ execution_queue[trip.index].id = task_id
                   THEN [trip EXCEPT !.stage = 3]
                   ELSE NoTrip
        /\ UNCHANGED <<clock, memu_integration, calls>>

\* Line 150 left out: a task without an agent is executed.
NoAgent_Never(agent_name) == FALSE

\* Line 150 changed: only the empty name is rejected, None is not.
NoAgent_OnlyEmpty(agent_name) == agent_name = ""

\* Line 150, `if not agent_name`: None and the empty string are falsy.
NoAgent(agent_name) == agent_name = None \/ agent_name = ""

\* execute_task (lines 143-171).  self.agents[agent_name] (line 168) raises
\* KeyError after the task has been written when the name is not registered.
execute_task(task_id) ==
    LET i == FindTask(task_id)
        agent_name == IF i = 0 THEN None ELSE execution_queue[i].assigned_agent
    IN  /\ IF i = 0
           THEN /\ ret' = TaskNotFound
                /\ UNCHANGED <<execution_queue, agents>>
           ELSE IF NoAgent(agent_name)
           THEN /\ ret' = NoAgentAssigned
                /\ UNCHANGED <<execution_queue, agents>>
           ELSE LET task == execution_queue[i]
                    results == PlannedResults[task.context, task.expected_outputs]
                IN  /\ execution_queue' =
                           [execution_queue EXCEPT ![i] = CompletedTask(@, results, clock)]
                    /\ IF agent_name \in DOMAIN agents
                       THEN /\ agents' = [agents EXCEPT ![agent_name] = FreedAgent(@)]
                            /\ ret' = Returned("results", results)
                       ELSE /\ UNCHANGED agents
                            /\ ret' = KeyError
        /\ trip' = IF /\ trip.stage = 3
                      /\ execution_queue[trip.index].id = task_id
                      /\ i # 0 /\ ~NoAgent(agent_name)
                   THEN [trip EXCEPT !.stage = 4]
                   ELSE NoTrip
        /\ UNCHANGED <<clock, memu_integration, calls>>

\* str.replace(old, ""): the string without the occurrences of the
\* character old.
RECURSIVE Remove(_, _)
Remove(s, old) ==
    IF s = "" THEN ""
    ELSE IF SubSeq(s, 1, 1) = old THEN Remove(SubSeq(s, 2, Len(s)), old)
    ELSE SubSeq(s, 1, 1) \o Remove(SubSeq(s, 2, Len(s)), old)

DigitValue ==
    "0" :> 0 @@ "1" :> 1 @@ "2" :> 2 @@ "3" :> 3 @@ "4" :> 4 @@
    "5" :> 5 @@ "6" :> 6 @@ "7" :> 7 @@ "8" :> 8 @@ "9" :> 9

\* Line 487 changed: only the last digit of an amount is read.
ParseFloat_LastDigit(s) == DigitValue[SubSeq(s, Len(s), Len(s))]

\* float(s) for a string of decimal digits (every configured amount is a
\* whole number, so the float is that integer).
RECURSIVE ParseFloat(_)
ParseFloat(s) ==
    IF Len(s) = 1 THEN DigitValue[s]
    ELSE 10 * ParseFloat(SubSeq(s, 1, Len(s) - 1))
         + DigitValue[SubSeq(s, Len(s), Len(s))]

\* float(v.replace("$", "").replace("B", "")) of line 487, tabulated once
\* for the amount strings that are configured.
AmountValue ==
    [v \in {load_memu_integration[k] : k \in DOMAIN load_memu_integration} |->
        ParseFloat(Remove(Remove(v, "$"), "B"))]

\* sum([...]) of line 487 over a set of keys of self.memu_integration.
RECURSIVE SumOfAmounts(_)
SumOfAmounts(keys) ==
    IF keys = {} THEN 0
    ELSE LET k == CHOOSE x \in keys : TRUE
         IN  AmountValue[memu_integration[k]] + SumOfAmounts(keys \ {k})

\* Lines 482-483 changed: every agent is counted whatever its status.
CountAgents_All(status) == Cardinality(DOMAIN agents)

\* Lines 482-483: len([a for a in self.agents.values() if a["status"] == status]).
CountAgents(status) ==
    Cardinality({a \in DOMAIN agents : agents[a].status = status})

\* Lines 484-486: len([t for t in self.execution_queue if t["status"] == status]).
CountTasks(status) ==
    Cardinality({i \in 1..Len(execution_queue) : execution_queue[i].status = status})

\* get_execution_status (lines 478-488).
get_execution_status ==
    /\ ret' = Returned("status",
                 [total_agents |-> Cardinality(DOMAIN agents),
                  available_agents |-> CountAgents("Available"),
                  busy_agents |-> CountAgents("Busy"),
                  queued_tasks |-> CountTasks("Queued"),
                  in_progress_tasks |-> CountTasks("In Progress"),
                  completed_tasks |-> CountTasks("Completed"),
                  memu_integration_value |-> SumOfAmounts(DOMAIN memu_integration)])
    /\ trip' = NoTrip
    /\ UNCHANGED <<agents, execution_queue, clock, memu_integration, calls>>

Next ==
    \/ Tick
    \/ \E a \in AgentNames : register_agent(a)
    \/ \E c \in Contexts : create_execution_task(c, "main")
    \/ \E t \in TaskIds, a \in AgentNames : assign_agent_to_task(t, a)
    \/ \E t \in TaskIds : execute_task(t)
    \/ get_execution_status

Spec == Init /\ [][Next]_vars

\* The same orchestrator driven by callers that register each agent name
\* once: no entry of self.agents is ever overwritten.
NextNoReregister ==
    \/ Tick
    \/ \E a \in AgentNames : a \notin DOMAIN agents /\ register_agent(a)
    \/ \E c \in Contexts : create_execution_task(c, "main")
    \/ \E t \in TaskIds, a \in AgentNames : assign_agent_to_task(t, a)
    \/ \E t \in TaskIds : execute_task(t)

SpecNoReregister == Init /\ [][NextNoReregister]_vars

\* execute_task called on a task that is In Progress.
ExecuteInProgress(task_id) ==
    /\ FindTask(task_id) # 0
    /\ execution_queue[FindTask(task_id)].status = "In Progress"
    /\ execute_task(task_id)

\* Callers that register each name once and that do not leave a task In
\* Progress unexecuted for ever.
SpecFair ==
    /\ Init
    /\ [][NextNoReregister]_vars
    /\ \A t \in TaskIds : WF_vars(ExecuteInProgress(t))

\* One agent and one task at a time, the task's context drawn from every
\* combination of estimator inputs.
NextEstimators ==
    \/ register_agent("TechnicalAgent")
    \/ \E c \in EstimatorContexts :
          execution_queue = <<>> /\ create_execution_task(c, "main")
    \/ \E t \in TaskIds : assign_agent_to_task(t, "TechnicalAgent")
    \/ \E t \in TaskIds : execute_task(t)

SpecEstimators == Init /\ [][NextEstimators]_vars

\* assign_agent_to_task run by a thread that can be preempted between its
\* checks and its writes.  First part: the checks of lines 126-134; a call
\* that fails one returns False at once.
assign_check(caller, task_id, agent_name) ==
    /\ calls[caller].pc = "idle"
    /\ LET i == FindTask(task_id)
           ok == /\ agent_name \in DOMAIN agents
                 /\ i # 0
                 /\ AgentIsAvailable(agent_name)
       IN  calls' = [calls EXCEPT ![caller] =
                        [pc |-> IF ok THEN "write" ELSE "done",
                         task_id |-> task_id,
                         agent_name |-> agent_name,
                         index |-> i,
                         result |-> FALSE]]
    /\ UNCHANGED <<agents, execution_queue, clock, ret, trip, memu_integration>>

\* Second part: the writes of lines 136-139 to the task found by the checks
\* and to the agent, and the return of True (line 141).
assign_write(caller) ==
    /\ calls[caller].pc = "write"
    /\ LET call == calls[caller]
       IN  /\ execution_queue' = [execution_queue EXCEPT
                   ![call.index] = AssignedTask(@, call.agent_name)]
           /\ agents' = [agents EXCEPT
                   ![call.agent_name] = BusyAgent(@, call.task_id)]
           /\ calls' = [calls EXCEPT ![caller] =
                   [call EXCEPT !.pc = "done", !.result = TRUE]]
    /\ UNCHANGED <<clock, ret, trip, memu_integration>>

\* Two threads that each call assign_agent_to_task once, on an orchestrator
\* whose agents are registered once and whose tasks are not executed.
NextConcurrent ==
    \/ Tick
    \/ \E a \in AgentNames : a \notin DOMAIN agents /\ register_agent(a)
    \/ \E c \in Contexts : create_execution_task(c, "main")
    \/ \E caller \in Callers, t \in TaskIds, a \in AgentNames :
          assign_check(caller, t, a)
    \/ \E caller \in Callers : assign_write(caller)

SpecConcurrent == Init /\ [][NextConcurrent]_vars

(* ============================ properties =============================== *)
Tasks == 1..Len(execution_queue)

\* C1: the identifiers returned by create_execution_task, which are the ids
\* of the queued tasks in order of creation, are pairwise distinct, also for
\* calls made within the same clock instant.
C1_TaskIdsDistinct ==
    \A i, j \in Tasks :
        i # j => execution_queue[i].id # execution_queue[j].id

\* C2: an assign_agent_to_task call naming a task whose status is not Queued
\* (In Progress after an earlier successful assign, or Completed) returns
\* false and changes no agent and no task.
C2_AssignNonQueuedFails ==
    [][\A t \in TaskIds, a \in AgentNames :
          ( /\ FindTask(t) # 0
            /\ execution_queue[FindTask(t)].status # "Queued"
            /\ assign_agent_to_task(t, a) )
          => ( /\ ret' = Returned("bool", FALSE)
               /\ UNCHANGED <<agents, execution_queue>> )]_vars

\* C3: while agent a is Busy, every assign_agent_to_task(t2, a) returns false
\* and leaves every agent and every task as it was.
C3_BusyAgentRefusesAssign ==
    [][\A t \in TaskIds, a \in AgentNames :
          ( /\ a \in DOMAIN agents
            /\ agents[a].status = "Busy"
            /\ assign_agent_to_task(t, a) )
          => ( /\ ret' = Returned("bool", FALSE)
               /\ UNCHANGED <<agents, execution_queue>> )]_vars

\* C3 witness: an assign has just been refused while every agent name is
\* registered and Busy, so the agent it named was Busy.
C3_Witness ==
    /\ ret = Returned("bool", FALSE)
    /\ \A a \in AgentNames : a \in DOMAIN agents /\ agents[a].status = "Busy"

\* C4: every agent whose current_task is set refers to a task in the queue
\* whose assigned_agent is that agent.
C4_CurrentTaskLinksBack ==
    \A a \in DOMAIN agents :
        agents[a].current_task # None =>
            \E i \in Tasks :
                /\ execution_queue[i].id = agents[a].current_task
                /\ execution_queue[i].assigned_agent = a

\* C5: for every registered agent, current_task is set exactly when status
\* is Busy, and unset exactly when status is Available.
C5_CurrentTaskIffBusy ==
    \A a \in DOMAIN agents :
        /\ (agents[a].current_task # None) <=> (agents[a].status = "Busy")
        /\ (agents[a].current_task = None) <=> (agents[a].status = "Available")

\* C5 witness: execute_task has just freed one agent while another agent
\* is still Busy with its task.
C5_Witness ==
    /\ ret.kind = "results"
    /\ \E a, b \in DOMAIN agents :
        /\ agents[a].status = "Available" /\ agents[a].current_task = None
        /\ agents[b].status = "Busy" /\ agents[b].current_task # None

\* C6: each agent is the assigned_agent of at most one task whose status is
\* In Progress.
C6_OneLiveAssignmentPerAgent ==
    \A a \in AgentNames :
        Cardinality({i \in Tasks :
                        /\ execution_queue[i].status = "In Progress"
                        /\ execution_queue[i].assigned_agent = a}) <= 1

\* C7: once a task's status is Completed, no later step changes its status.
C7_CompletedIsTerminal ==
    [][\A i \in Tasks :
          execution_queue[i].status = "Completed"
          => execution_queue'[i].status = "Completed"]_vars

\* C8: once a task is Completed, its assigned_agent never changes.
C8_CompletedKeepsAgent ==
    [][\A i \in Tasks :
          execution_queue[i].status = "Completed"
          => execution_queue'[i].assigned_agent = execution_queue[i].assigned_agent]_vars

\* C9: every Completed task has its results and its completed_at, and every
\* Queued task has neither.
C9_CompletedHasResults ==
    \A i \in Tasks :
        LET task == execution_queue[i]
        IN  /\ task.status = "Completed"
                => ("results" \in DOMAIN task /\ "completed_at" \in DOMAIN task)
            /\ task.status = "Queued"
                => ("results" \notin DOMAIN task /\ "completed_at" \notin DOMAIN task)

\* C9 witness: the queue holds a Completed task, returned by the execute_task
\* call just made, next to a task that is still Queued.
C9_Witness ==
    /\ ret.kind = "results"
    /\ \E i, j \in Tasks :
        /\ execution_queue[i].status = "Completed"
        /\ execution_queue[i].results = ret.value
        /\ execution_queue[j].status = "Queued"

\* C10: after register_agent(A), create_execution_task -> T, a successful
\* assign_agent_to_task(T, A) and execute_task(T), made in this order from any
\* state, agent A is Available with no current_task and the task created by
\* the second call is Completed.
C10_RoundTrip ==
    trip.stage = 4 =>
        /\ agents[trip.agent].status = "Available"
        /\ agents[trip.agent].current_task = None
        /\ execution_queue[trip.index].status = "Completed"

\* The context object a task references.
ContextOf(task) == AllContextObjects[task.context]

\* A (target_volume, target_section) pair with an entry of its own in the
\* catalog tables.
Catalogued(context) ==
    \/ /\ context.target_volume = "Volume_1"
       /\ context.target_section \in DOMAIN FoundationalPlans
    \/ /\ context.target_volume = "Volume_2"
       /\ context.target_section \in DOMAIN TechnicalPlans

\* C11: the result of an executed task whose (target_volume, target_section)
\* is in the catalog carries that catalog entry's focus, steps and metrics.
C11_ResultCarriesCatalogPlan ==
    \A i \in Tasks :
        LET task == execution_queue[i]
            context == ContextOf(task)
            entry == generate_execution_plan_by_volume(context, task.expected_outputs)
        IN  ("results" \in DOMAIN task /\ Catalogued(context)) =>
                /\ task.results.plan_focus = entry.focus
                /\ task.results.implementation_steps = entry.implementation
                /\ task.results.success_metrics = entry.success_metrics

\* C12: the result of an executed task whose target_volume is not a catalog
\* volume, or whose target_section has no entry within Volume_1 / Volume_2,
\* carries the generic plan for that section.
C12_ResultCarriesGenericPlan ==
    \A i \in Tasks :
        LET task == execution_queue[i]
            context == ContextOf(task)
            generic == generate_generic_plan(context.target_section, context)
            volumes == {"Volume_1", "Volume_2", "Volume_3", "Volume_4",
                        "Volume_5", "Volume_6", "Volume_7"}
        IN  ( /\ "results" \in DOMAIN task
              /\ \/ context.target_volume \notin volumes
                 \/ /\ context.target_volume \in {"Volume_1", "Volume_2"}
                    /\ ~Catalogued(context) ) =>
                /\ task.results.plan_focus = generic.focus
                /\ task.results.implementation_steps = generic.implementation

\* In the step properties below the leading conjunct on ret' is implied by
\* the operation it stands before (each operation sets the kind of value it
\* returns); it spares evaluating the operation on the steps of the others.

\* Some task in the queue has this identifier.
TaskKnown(task_id) == \E i \in Tasks : execution_queue[i].id = task_id

\* C13: assign_agent_to_task(t, a) returns false and changes no agent and no
\* task when t identifies no task in the queue or a is not registered.
C13_AssignUnknownFails ==
    [][\A t \in TaskIds, a \in AgentNames :
          ( /\ ret'.kind = "bool"
            /\ ~TaskKnown(t) \/ a \notin DOMAIN agents
            /\ assign_agent_to_task(t, a) )
          => ( /\ ret' = Returned("bool", FALSE)
               /\ UNCHANGED <<agents, execution_queue>> )]_vars

\* C13 witness: an assign has just been refused although the queue holds a
\* task and no registered agent is Busy, so the call named an unknown task
\* or an unregistered agent.
C13_Witness ==
    /\ ret = Returned("bool", FALSE)
    /\ execution_queue # <<>>
    /\ \A a \in DOMAIN agents : agents[a].status = "Available"

\* C14: execute_task(t) returns the error "Task not found" when t is unknown
\* and "No agent assigned" when the task has no assigned_agent, and in both
\* cases changes no task and no agent.
C14_ExecuteErrorsChangeNothing ==
    [][\A t \in TaskIds :
          (ret'.kind \in {"error", "results", "raised"} /\ execute_task(t)) =>
            /\ ~TaskKnown(t) =>
                 ( /\ ret' = TaskNotFound
                   /\ UNCHANGED <<agents, execution_queue>> )
            /\ (TaskKnown(t) /\ execution_queue[FindTask(t)].assigned_agent = None) =>
                 ( /\ ret' = NoAgentAssigned
                   /\ UNCHANGED <<agents, execution_queue>> )]_vars

\* C14 witness: execute_task has just answered "No agent assigned" and the
\* queue still holds a Queued task without an agent.
C14_Witness ==
    /\ ret = NoAgentAssigned
    /\ \E i \in Tasks :
        /\ execution_queue[i].status = "Queued"
        /\ execution_queue[i].assigned_agent = None

\* C15: when assign_agent_to_task(t, a) returns true, the task that t
\* identifies has assigned_agent = a and status In Progress, and agent a
\* has status Busy and current_task = t, in the resulting state.
C15_AssignSuccessEffects ==
    [][\A t \in TaskIds, a \in AgentNames :
          (ret' = Returned("bool", TRUE) /\ assign_agent_to_task(t, a))
          => ( /\ FindTask(t) # 0
               /\ execution_queue'[FindTask(t)].id = t
               /\ execution_queue'[FindTask(t)].assigned_agent = a
               /\ execution_queue'[FindTask(t)].status = "In Progress"
               /\ a \in DOMAIN agents'
               /\ agents'[a].status = "Busy"
               /\ agents'[a].current_task = t )]_vars

\* C15 witness: an assign has just returned true and its task and agent
\* point at each other.
C15_Witness ==
    /\ ret = Returned("bool", TRUE)
    /\ \E i \in Tasks, a \in DOMAIN agents :
        /\ execution_queue[i].status = "In Progress"
        /\ execution_queue[i].assigned_agent = a
        /\ agents[a].status = "Busy"
        /\ agents[a].current_task = execution_queue[i].id

\* C16: assign_agent_to_task(t, a) returns true exactly when a is
\* registered, t identifies a task in the queue and a is Available; nothing
\* else about the agent or the task enters the outcome.
C16_AssignSucceedsIffAvailable ==
    [][\A t \in TaskIds, a \in AgentNames :
          (ret'.kind = "bool" /\ assign_agent_to_task(t, a))
          => ( ret'.value <=> ( /\ a \in DOMAIN agents
                                /\ TaskKnown(t)
                                /\ agents[a].status = "Available" ) )]_vars

\* The agent lists the reality layer of the task's context.
InLayersOf(agent_name, task) ==
    \E k \in DOMAIN agents[agent_name].reality_layers :
        agents[agent_name].reality_layers[k] = ContextOf(task).current_reality_layer

\* C16 witness: an assign has just succeeded for an agent whose reality
\* layers do not include the layer of the task's context, on a task of
\* High priority.
C16_Witness ==
    /\ ret = Returned("bool", TRUE)
    /\ \E i \in Tasks, a \in DOMAIN agents :
        /\ execution_queue[i].status = "In Progress"
        /\ execution_queue[i].assigned_agent = a
        /\ agents[a].current_task = execution_queue[i].id
        /\ ~InLayersOf(a, execution_queue[i])
        /\ ContextOf(execution_queue[i]).priority = "High"

\* The three tiers, and a label of a tier: a string that begins with it.
Tiers == {"High", "Medium", "Low"}

IsTierLabel(s) ==
    \E tier \in Tiers : Len(s) >= Len(tier) /\ SubSeq(s, 1, Len(tier)) = tier

\* The strings _calculate_business_value can return.
RevenueBrackets ==
    {"$50K-100K monthly revenue potential",
     "$100K-500K monthly revenue potential",
     "$25K-75K monthly revenue potential",
     "$10K-50K monthly revenue potential"}

C18_EqualContextsEqualResults ==
    \A i, j \in Tasks :
        ( /\ "results" \in DOMAIN execution_queue[i]
          /\ "results" \in DOMAIN execution_queue[j]
          /\ ContextOf(execution_queue[i]) = ContextOf(execution_queue[j]) )
        => execution_queue[i].results = execution_queue[j].results

\* C18 witness: two tasks with equal contexts and different identifiers
\* have been executed by different agents.
C18_Witness ==
    \E i, j \in Tasks :
        /\ i < j
        /\ "results" \in DOMAIN execution_queue[i]
        /\ "results" \in DOMAIN execution_queue[j]
        /\ ContextOf(execution_queue[i]) = ContextOf(execution_queue[j])
        /\ execution_queue[i].assigned_agent # execution_queue[j].assigned_agent
        /\ execution_queue[i].id # execution_queue[j].id

\* C19: register_agent(a) always leaves a Available with current_task null,
\* whatever a was before; it changes no other agent and no task; and no
\* operation removes an agent from the registry.
C19_RegisterResetsOnlyThatAgent ==
    [][ /\ \A a \in AgentNames :
            (ret'.kind = "none" /\ register_agent(a)) =>
              /\ a \in DOMAIN agents'
              /\ agents'[a].status = "Available"
              /\ agents'[a].current_task = None
              /\ \A b \in (DOMAIN agents) \ {a} :
                    b \in DOMAIN agents' /\ agents'[b] = agents[b]
              /\ DOMAIN agents' = (DOMAIN agents) \cup {a}
              /\ execution_queue' = execution_queue
        /\ (DOMAIN agents) \subseteq (DOMAIN agents') ]_vars

\* C19 witness: an agent has just been registered again while a task In
\* Progress names it, the task is untouched, and another agent is Busy.
C19_Witness ==
    /\ trip.stage = 1
    /\ agents[trip.agent].status = "Available"
    /\ agents[trip.agent].current_task = None
    /\ \E i \in Tasks :
        /\ execution_queue[i].status = "In Progress"
        /\ execution_queue[i].assigned_agent = trip.agent
    /\ \E b \in (DOMAIN agents) \ {trip.agent} : agents[b].status = "Busy"

\* C20: create_execution_task appends exactly one task, Queued and without
\* an agent, at the end of the queue and changes no agent; and no operation
\* removes or reorders a task.
C20_CreateAppendsOneQueuedTask ==
    [][ /\ \A c \in Contexts, e \in DOMAIN ExpectedOutputObjects :
            (ret'.kind = "id" /\ create_execution_task(c, e)) =>
              /\ Len(execution_queue') = Len(execution_queue) + 1
              /\ SubSeq(execution_queue', 1, Len(execution_queue)) = execution_queue
              /\ execution_queue'[Len(execution_queue')].status = "Queued"
              /\ execution_queue'[Len(execution_queue')].assigned_agent = None
              /\ agents' = agents
        /\ Len(execution_queue') >= Len(execution_queue)
        /\ \A i \in Tasks :
              /\ execution_queue'[i].id = execution_queue[i].id
              /\ execution_queue'[i].context = execution_queue[i].context
              /\ execution_queue'[i].expected_outputs =
                     execution_queue[i].expected_outputs
              /\ execution_queue'[i].created_at = execution_queue[i].created_at ]_vars

\* C20 witness: a second task has just been appended, Queued and without an
\* agent, behind a task In Progress whose agent is still Busy.
C20_Witness ==
    /\ ret.kind = "id"
    /\ Len(execution_queue) = 2
    /\ execution_queue[2].id = ret.value
    /\ execution_queue[2].status = "Queued"
    /\ execution_queue[2].assigned_agent = None
    /\ execution_queue[1].status = "In Progress"
    /\ execution_queue[1].assigned_agent \in DOMAIN agents
    /\ agents[execution_queue[1].assigned_agent].status = "Busy"

\* C21: get_execution_status is a pure read: it changes no agent and no
\* task, and the counts it returns partition the state it was called in:
\* available + busy = total = number of registered agents, and
\* queued + in progress + completed = number of tasks in the queue.
C21_StatusIsPureRead ==
    [][ (ret'.kind = "status" /\ get_execution_status) =>
          /\ UNCHANGED <<agents, execution_queue, memu_integration>>
          /\ LET status == ret'.value
             IN  /\ status.total_agents = Cardinality(DOMAIN agents)
                 /\ status.available_agents + status.busy_agents
                        = status.total_agents
                 /\ status.queued_tasks + status.in_progress_tasks
                        + status.completed_tasks = Len(execution_queue) ]_vars

\* C21 witness: a status has just been returned that counts one agent of
\* each status and one task In Progress beside one Completed.
C21_Witness ==
    /\ ret.kind = "status"
    /\ ret.value.available_agents = 1
    /\ ret.value.busy_agents = 1
    /\ ret.value.in_progress_tasks = 1
    /\ ret.value.completed_tasks = 1

\* C22: the memu_integration_value that get_execution_status reports is 935,
\* the sum of the 17 configured amounts, in every reachable state: no
\* register, create, assign or execute call changes the configured amounts.
C22_TotalValueIsConstant ==
    /\ memu_integration = load_memu_integration
    /\ Cardinality(DOMAIN memu_integration) = 17
    /\ ret.kind = "status" => ret.value.memu_integration_value = 935

\* C22 witness: a status reporting 935 has been returned after agents were
\* registered and tasks created, assigned and executed.
C22_Witness ==
    /\ ret.kind = "status"
    /\ ret.value.memu_integration_value = 935
    /\ ret.value.completed_tasks = 1
    /\ ret.value.queued_tasks = 1
    /\ ret.value.total_agents = 2

\* C23: every Completed task has completed_at >= created_at, the clock
\* never going backwards, after any sequence of operations.
C23_CompletedAfterCreated ==
    \A i \in Tasks :
        execution_queue[i].status = "Completed" =>
            /\ "completed_at" \in DOMAIN execution_queue[i]
            /\ execution_queue[i].completed_at >= execution_queue[i].created_at

\* C23 witness: a task created at one instant was completed at a later one.
C23_Witness ==
    \E i \in Tasks :
        /\ execution_queue[i].status = "Completed"
        /\ execution_queue[i].completed_at > execution_queue[i].created_at

\* C24: no operation changes an existing task's id, context,
\* expected_outputs or created_at.
C24_CreationFieldsFrozen ==
    [][\A i \in Tasks :
          /\ i <= Len(execution_queue')
          /\ execution_queue'[i].id = execution_queue[i].id
          /\ execution_queue'[i].context = execution_queue[i].context
          /\ execution_queue'[i].expected_outputs = execution_queue[i].expected_outputs
          /\ execution_queue'[i].created_at = execution_queue[i].created_at]_vars

\* C24 witness: a task created at instant 0 has been executed and assigned
\* again at a later instant and still carries its creation fields.
C24_Witness ==
    \E i \in Tasks :
        /\ execution_queue[i].status = "In Progress"
        /\ "results" \in DOMAIN execution_queue[i]
        /\ clock > 0
        /\ execution_queue[i].created_at = 0
        /\ execution_queue[i].id = TaskIdAt(0)

\* C25: no sequence of calls raises: every assigned_agent that is not null
\* names a registered agent, so the lookup of the agent execute_task frees
\* (line 168) succeeds.
C25_NoCrash ==
    /\ ret.kind # "raised"
    /\ \A i \in Tasks :
          execution_queue[i].assigned_agent # None =>
              execution_queue[i].assigned_agent \in DOMAIN agents

\* C25 witness: execute_task has returned results and freed the agent the
\* task names.
C25_Witness ==
    /\ ret.kind = "results"
    /\ \E i \in Tasks :
        /\ execution_queue[i].status = "Completed"
        /\ execution_queue[i].assigned_agent \in DOMAIN agents
        /\ agents[execution_queue[i].assigned_agent].status = "Available"

\* C26: assign_agent_to_task is an atomic compare-and-set under concurrent
\* callers: of two calls for the same agent with two different tasks, whose
\* steps may interleave between the availability check and the writes, at
\* most one returns true, and the agent is the assigned_agent of at most
\* one task In Progress.
C26_AssignIsAtomic ==
    /\ \A c1, c2 \in Callers :
          ( /\ c1 # c2
            /\ calls[c1].pc = "done" /\ calls[c2].pc = "done"
            /\ calls[c1].agent_name = calls[c2].agent_name
            /\ calls[c1].index # calls[c2].index )
          => ~(calls[c1].result /\ calls[c2].result)
    /\ \A a \in DOMAIN agents :
          Cardinality({i \in Tasks :
              /\ execution_queue[i].status = "In Progress"
              /\ execution_queue[i].assigned_agent = a}) <= 1

\* C27: execute_task(t) on a task that is already Completed changes
\* nothing: no task field (results and completed_at included) and no
\* agent's status or current_task.
C27_ExecuteCompletedChangesNothing ==
    [][\A t \in TaskIds :
          ( /\ TaskKnown(t)
            /\ execution_queue[FindTask(t)].status = "Completed"
            /\ execute_task(t) )
          => UNCHANGED <<agents, execution_queue>>]_vars

\* C28: every task In Progress has an assigned_agent that is registered,
\* Busy, and has the task's id as its current_task.
C28_InProgressTaskHasBusyAgent ==
    \A i \in Tasks :
        execution_queue[i].status = "In Progress" =>
            /\ execution_queue[i].assigned_agent \in DOMAIN agents
            /\ agents[execution_queue[i].assigned_agent].status = "Busy"
            /\ agents[execution_queue[i].assigned_agent].current_task
                   = execution_queue[i].id

\* A call of assign_agent_to_task, whatever it returns.
AssignStep == \E t \in TaskIds, a \in AgentNames : assign_agent_to_task(t, a)

\* C29: no agent stays Busy for ever: without re-registration, when every
\* task In Progress is eventually executed and assign calls eventually stop,
\* every Busy agent eventually becomes Available.
C29_BusyAgentsAreFreed ==
    (<>[][~AssignStep]_vars) =>
        \A a \in AgentNames :
            [](  (a \in DOMAIN agents /\ agents[a].status = "Busy")
              => <>(a \in DOMAIN agents /\ agents[a].status = "Available"))

\* C30: every task is addressable by the identifier returned when it was
\* created: for a Queued task k and an Available agent a,
\* assign_agent_to_task(id of k, a) moves task k itself to In Progress.
C30_AssignReachesTheTask ==
    [][\A k \in Tasks, a \in AgentNames :
          ( /\ ret'.kind = "bool"
            /\ execution_queue[k].status = "Queued"
            /\ a \in DOMAIN agents
            /\ agents[a].status = "Available"
            /\ assign_agent_to_task(execution_queue[k].id, a) )
          => ( /\ execution_queue'[k].status = "In Progress"
               /\ execution_queue'[k].assigned_agent = a )]_vars

\* C31: a task is Queued exactly when its assigned_agent is null, in every
\* reachable state; and an assigned_agent, once set, is never cleared.
C31_QueuedIffNoAgent ==
    [][ /\ \A i \in Tasks :
            /\ (execution_queue[i].status = "Queued")
                   <=> (execution_queue[i].assigned_agent = None)
            /\ execution_queue[i].assigned_agent # None
                   => execution_queue'[i].assigned_agent # None
        /\ \A i \in 1..Len(execution_queue') :
            (execution_queue'[i].status = "Queued")
                <=> (execution_queue'[i].assigned_agent = None) ]_vars

\* C31 witness: a Queued task without an agent stands beside a task that
\* has been assigned, executed and assigned again.
C31_Witness ==
    \E i, j \in Tasks :
        /\ execution_queue[i].status = "Queued"
        /\ execution_queue[i].assigned_agent = None
        /\ execution_queue[j].status = "In Progress"
        /\ execution_queue[j].assigned_agent # None
        /\ "results" \in DOMAIN execution_queue[j]

\* The task an identifier stands for: the first in the queue that carries it.
TaskNamed(task_id) ==
    CHOOSE i \in Tasks :
        /\ execution_queue[i].id = task_id
        /\ \A j \in Tasks : execution_queue[j].id = task_id => i <= j

\* C32: a successful assign_agent_to_task(t, a) changes only task t and
\* agent a, and a successful execute_task(t) changes only task t and the
\* agent recorded as t's assigned_agent; every other task and every other
\* agent is left as it was.
C32_SuccessTouchesOnlyItsPair ==
    [][ /\ \A t \in TaskIds, a \in AgentNames :
            (ret' = Returned("bool", TRUE) /\ assign_agent_to_task(t, a)) =>
              /\ Len(execution_queue') = Len(execution_queue)
              /\ DOMAIN agents' = DOMAIN agents
              /\ \A i \in Tasks \ {TaskNamed(t)} :
                    execution_queue'[i] = execution_queue[i]
              /\ \A b \in (DOMAIN agents) \ {a} : agents'[b] = agents[b]
        /\ \A t \in TaskIds :
            (ret'.kind = "results" /\ execute_task(t)) =>
              /\ Len(execution_queue') = Len(execution_queue)
              /\ DOMAIN agents' = DOMAIN agents
              /\ \A i \in Tasks \ {TaskNamed(t)} :
                    execution_queue'[i] = execution_queue[i]
              /\ \A b \in (DOMAIN agents)
                          \ {execution_queue[TaskNamed(t)].assigned_agent} :
                    agents'[b] = agents[b] ]_vars

\* C32 witness: a task has just been executed and its agent freed while
\* another task is still In Progress with another agent still Busy on it.
C32_Witness ==
    /\ ret.kind = "results"
    /\ \E i, j \in Tasks :
        /\ execution_queue[i].status = "Completed"
        /\ agents[execution_queue[i].assigned_agent].status = "Available"
        /\ execution_queue[j].status = "In Progress"
        /\ execution_queue[j].assigned_agent # execution_queue[i].assigned_agent
        /\ agents[execution_queue[j].assigned_agent].status = "Busy"
        /\ agents[execution_queue[j].assigned_agent].current_task
               = execution_queue[j].id

\* The tier a label begins with, and the order of the tiers.
TierOf(s) ==
    IF IsTierLabel(s)
    THEN CHOOSE tier \in Tiers :
            Len(s) >= Len(tier) /\ SubSeq(s, 1, Len(tier)) = tier
    ELSE "none"

TierRank == [none |-> 0, Low |-> 1, Medium |-> 2, High |-> 3]

\* 10 * ordinal of the reality layer + length of the focus text.
ImpactScore(context) ==
    10 * RealityLayer[context.current_reality_layer]
        + Len(context.current_business_focus)

\* C33: the cross-dimensional impact of a result is High iff the score
\* 10 * layer ordinal + length of the focus is > 50, Medium iff it is in
\* 31..50 and Low iff it is <= 30; so layers 6 and 7 are always High, and
\* a context with a layer and a focus length at least as large never gets
\* a lower tier.
C33_ImpactTierFollowsScore ==
    \A i \in Tasks :
        "results" \in DOMAIN execution_queue[i] =>
            LET context == ContextOf(execution_queue[i])
                score == ImpactScore(context)
                tier == TierOf(execution_queue[i].results.cross_dimensional_impact)
            IN  /\ tier = "High" <=> score > 50
                /\ tier = "Medium" <=> (30 < score /\ score <= 50)
                /\ tier = "Low" <=> score <= 30
                /\ RealityLayer[context.current_reality_layer] >= 6 => tier = "High"
                /\ \A c \in EstimatorContexts :
                      LET other == AllContextObjects[c]
                      IN  ( /\ RealityLayer[other.current_reality_layer]
                                   >= RealityLayer[context.current_reality_layer]
                            /\ Len(other.current_business_focus)
                                   >= Len(context.current_business_focus) )
                          => TierRank[TierOf(PlannedResults[c, "main"]
                                                 .cross_dimensional_impact)]
                                 >= TierRank[tier]

\* C33 witness: a task whose score is exactly 50 (layer 5, empty focus) has
\* been executed and rated Medium.
C33_Witness ==
    \E i \in Tasks :
        /\ "results" \in DOMAIN execution_queue[i]
        /\ ImpactScore(ContextOf(execution_queue[i])) = 50
        /\ TierOf(execution_queue[i].results.cross_dimensional_impact) = "Medium"

====
